---- MODULE Spec2Model ----
(***************************************************************************)
(* Model of crates/hyfetch/src/pride_month.rs: start_animation, its input  *)
(* watcher thread, its layout computation and its driver loop.             *)
(*                                                                         *)
(* usize values are held as the representative of their residue modulo     *)
(* 2^64 that lies nearest to zero: a negative representative r stands for  *)
(* the usize value 2^64 + r.  Addition and subtraction of representatives  *)
(* are then the wrapping operations, and ULt is the unsigned comparison.   *)
(***************************************************************************)
EXTENDS Integers, Sequences, FiniteSets, TLC

\* ------------------------------------------------------------------ bounds
\* Ticks of the driver loop a behaviour may start.
MaxTicks == 3
\* Lines the environment delivers on standard input.
MaxLines == 2
\* Read errors standard input may report.
MaxErrs == 1
\* Largest terminal width and height the layout is computed for.
MaxW == 84
MaxH == 26

\* --------------------------------------------------------------- constants
TEXT_ASCII ==
    <<"\n">>
    \o <<".", "=", "=", "=", "=", "=", "=", "=", "=", "=", "=", "=", "=", "=", "=", "=", "=", "=", "=", "=", "=", "=", "=", "=", "=", "=", "=", "=", "=", "=", "=", "=", "=", "=", "=", "=", "=", "=", "=", "=", "=", "=", "=", "=", "=", "=", "=", "=", "=", "=", "=", "=", "=", "=", "=", ".", "\n">>
    \o <<"|", " ", ".", " ", " ", ".", " ", " ", " ", " ", " ", " ", " ", " ", " ", " ", " ", " ", " ", " ", ".", "_", "_", " ", " ", " ", " ", " ", " ", " ", ".", " ", " ", " ", " ", " ", ".", " ", " ", ".", " ", " ", " ", " ", " ", " ", " ", ",", " ", ".", " ", " ", " ", "|", " ", "|", "\n">>
    \o <<"|", " ", "|", "_", "_", "|", " ", "_", ".", ".", "_", " ", ".", "_", " ", " ", " ", ".", " ", " ", "[", "_", "_", ")", ".", "_", ".", "*", " ", "_", "|", " ", "_", " ", " ", " ", "|", "\\", "/", "|", " ", "_", " ", ".", "_", " ", "-", "+", "-", "|", "_", " ", " ", "|", " ", "|", "\n">>
    \o <<"|", " ", "|", " ", " ", "|", "(", "_", "]", "[", "_", ")", "[", "_", ")", "\\", "_", "|", " ", " ", "|", " ", " ", " ", "[", " ", " ", "|", "(", "_", "]", "(", "/", ",", " ", " ", "|", " ", " ", "|", "(", "_", ")", "[", " ", ")", " ", "|", " ", "[", " ", ")", " ", "*", " ", "|", "\n">>
    \o <<"|", " ", " ", " ", " ", " ", " ", " ", " ", "|", " ", " ", "|", " ", " ", ".", "_", "|", " ", " ", " ", " ", " ", " ", " ", " ", " ", " ", " ", " ", " ", " ", " ", " ", " ", " ", " ", " ", " ", " ", " ", " ", " ", " ", " ", " ", " ", " ", " ", " ", " ", " ", " ", " ", " ", "|", "\n">>
    \o <<"'", "=", "=", "=", "=", "=", "=", "=", "=", "=", "=", "=", "=", "=", "=", "=", "=", "=", "=", "=", "=", "=", "=", "=", "=", "=", "=", "=", "=", "=", "=", "=", "=", "=", "=", "=", "=", "=", "=", "=", "=", "=", "=", "=", "=", "=", "=", "=", "=", "=", "=", "=", "=", "=", "=", "'", "\n">>

NOTICE ==
    <<"P", "r", "e", "s", "s", " ", "e", "n", "t", "e", "r", " ", "t", "o", " ", "c", "o", "n", "t", "i", "n", "u", "e">>

speed == 2

\* Byte lengths of the lines delivered on standard input, newline included:
\* a bare newline, and a line with text.
LineLens == {1, 2}

BLOCKS == 9

\* --------------------------------------------------------- string helpers
\* s[a..b] of the source: 0-based, b exclusive.
Slice(s, a, b) == SubSeq(s, a + 1, b)

\* str::split: the pieces of s between the occurrences of sep, one more
\* than there are occurrences.
Split(s, sep) ==
    LET P == {i \in 1..Len(s) : s[i] = sep}
        n == Cardinality(P)
        Nth(k) == CHOOSE p \in P : Cardinality({q \in P : q < p}) = k - 1
        First(k) == IF k = 1 THEN 1 ELSE Nth(k - 1) + 1
        Last(k) == IF k = n + 1 THEN Len(s) ELSE Nth(k) - 1
    IN  [k \in 1..(n + 1) |-> SubSeq(s, First(k), Last(k))]

text == Slice(TEXT_ASCII, 1, Len(TEXT_ASCII) - 1)

text_lines == Split(text, "\n")

text_height == Len(text_lines)

text_width == Len(text_lines[1])

\* ------------------------------------------------------- usize arithmetic
\* Unsigned a < b on representatives.
ULt(a, b) ==
    IF (a < 0) = (b < 0) THEN a < b ELSE b < 0

ULe(a, b) == a = b \/ ULt(a, b)

\* a - b leaves the usize range.
SubOverflows(a, b) == ULt(a, b)

\* a + b leaves the usize range (b is a small non-negative value).
AddOverflows(a, b) == a < 0 /\ a + b >= 0

\* --------------------------------------------------------------- layout
\* The geometry before it is computed.
NoGeo ==
    [panic |-> FALSE, block_width |-> 0,
     text_start_y |-> 0, text_end_y |-> 0, text_start_x |-> 0, text_end_x |-> 0,
     notice_start_x |-> 0, notice_end_x |-> 0, notice_y |-> 0]

\* Faulty variant of TextStartX: half the art width is not subtracted.
TextStartXNotCentred(tw) == tw \div 2

\* let text_start_x = (w / 2) - (text_width / 2);
TextStartX(tw) == (tw \div 2) - (text_width \div 2)

\* Faulty variant of NoticeStartX: the trailing - 1 is missing.
NoticeStartXOffByOne(tw) == tw - Len(NOTICE)

\* let notice_start_x = w - NOTICE.len() - 1;
NoticeStartX(tw) == tw - Len(NOTICE) - 1

\* Lines 66-76 for a terminal of tw columns and th rows.  panic: one of the
\* operations left the usize range, which aborts a build with overflow
\* checks and wraps in a build without them.
Layout(tw, th) ==
    LET block_width == tw \div BLOCKS
        text_start_y == (th \div 2) - (text_height \div 2)
        text_end_y == text_start_y + text_height
        text_start_x == TextStartX(tw)
        text_end_x == text_start_x + text_width
        notice_start_x == NoticeStartX(tw)
        notice_end_x == tw - 1
        notice_y == th - 1
    IN  [panic |->
             \/ SubOverflows(th \div 2, text_height \div 2)
             \/ AddOverflows(text_start_y, text_height)
             \/ SubOverflows(tw \div 2, text_width \div 2)
             \/ AddOverflows(text_start_x, text_width)
             \/ SubOverflows(tw, Len(NOTICE))
             \/ SubOverflows(tw - Len(NOTICE), 1)
             \/ SubOverflows(tw, 1)
             \/ SubOverflows(th, 1),
         block_width |-> block_width,
         text_start_y |-> text_start_y, text_end_y |-> text_end_y,
         text_start_x |-> text_start_x, text_end_x |-> text_end_x,
         notice_start_x |-> notice_start_x, notice_end_x |-> notice_end_x,
         notice_y |-> notice_y]

\* Terminal sizes the size lookup reports in Spec: the art and the notice
\* fit and no operation of the layout or of the compositor leaves the usize
\* range.
MainSizes == {<<80, 24>>, <<60, 6>>}

\* ------------------------------------------------------------ compositor
\* No background escape is in effect.
NoBg == [c |-> "none", dark |-> FALSE]

\* No cell has been pushed.
NoCell == [x |-> -1, y |-> -1, idx |-> -1, ch |-> "", bg |-> NoBg]

\* floor(2.0 * sin(n)) for n = 0, 1, ..., 63, in f64 arithmetic.
TwoSinFloor ==
    <<
       0,  1,  1,  0, -2, -2, -1,  1,  1,  0, -2, -2, -2,  0,  1,  1,
      -1, -2, -2,  0,  1,  1, -1, -2, -2, -1,  1,  1,  0, -2, -2, -1,
       1,  1,  1, -1, -2, -2,  0,  1,  1, -1, -2, -2,  0,  1,  1,  0,
      -2, -2, -1,  1,  1,  0, -2, -2, -2,  0,  1,  1, -1, -2, -2,  0
    >>

\* `as usize` on an f64: the fraction is dropped and the value is brought
\* into the usize range, so every negative value becomes 0.
AsUsize(fl) == IF fl < 0 THEN 0 ELSE fl

\* The least positive integer n for which (n as f64).sin() is exactly 1.0:
\* 1 - sin(288632526) is 1.57e-17, less than half the gap 2^-53 between 1.0
\* and the f64 below it.
SinIsOne == 288632526

\* floor(2.0 * sin(n)) for n = SinIsOne - 5, ..., SinIsOne + 18, in f64
\* arithmetic.
TwoSinFloorLate ==
    <<
       0, -2, -2, -1,  1,  2,  1, -1, -2, -2,  0,  1,
       1, -1, -2, -2,  0,  1,  1,  0, -2, -2, -1,  1
    >>

\* floor(2.0 * sin(n)) for the arguments n the model reaches.
TwoSinFloorAt(n) ==
    IF n < Len(TwoSinFloor)
    THEN TwoSinFloor[n + 1]
    ELSE TwoSinFloorLate[n - (SinIsOne - 5) + 1]

\* (2.0 * (y as f64 + 0.5 * frame as f64).sin()) as usize, for the even
\* frame indices the driver passes.
Ripple(f, y) == AsUsize(TwoSinFloorAt(y + (f \div 2)))

\* The colours of every preset, in order (crate::presets): three distinct
\* colours stand for the cycle.
Colors == <<"c0", "c1", "c2">>

\* The stripe colour as a background, and the same colour under the
\* half-transparent black overlay.
Plain(c) == [c |-> c, dark |-> FALSE]

\* Faulty variant of Overlaid: the black overlay is left out.
OverlaidLeftOut(c) == [c |-> c, dark |-> FALSE]

Overlaid(c) == [c |-> c, dark |-> TRUE]

\* Line 95: the background pushed at the start of row y.  div0: the
\* division or the remainder has a zero divisor.
RowStartColor(f, y, g) ==
    IF g.block_width = 0 \/ Len(Colors) = 0
    THEN [div0 |-> TRUE, bg |-> NoBg]
    ELSE [div0 |-> FALSE,
          bg |-> Plain(Colors[(((f + y) \div g.block_width) % Len(Colors)) + 1])]

\* Lines 101-140 for the cell (x, y) of frame f under layout g, operands
\* evaluated left to right and only as far as && and || need them.
\*   ovf:    an evaluated addition or subtraction left the usize range
\*   oob:    a character lookup is outside its string (unwrap of None)
\*   switch: the cell is a switching point; bg is then the background pushed
\*   ch:     the character pushed
DrawCell(f, x, y, g) ==
    LET idx == f + x + y + Ripple(f, y)
        y_text == ULe(g.text_start_y, y) /\ ULt(y, g.text_end_y)
        edge == y = g.text_start_y \/ y = g.text_end_y - 1
        ovfEdge == y # g.text_start_y /\ SubOverflows(g.text_end_y, 1)
        border == 1 + (IF edge THEN 0 ELSE 1)
        left == g.text_start_x - border
        ovfLeft == SubOverflows(g.text_start_x, border)
        right == g.text_end_x + border
        ovfRight == AddOverflows(g.text_end_x, border)
        nleft == g.notice_start_x - 1
        ovfNleft == SubOverflows(g.notice_start_x, 1)
        nright == g.notice_end_x + 1
        ovfNright == AddOverflows(g.notice_end_x, 1)
        sw1 == idx % g.block_width = 0
        sw2 == x = left
        sw3 == x = right
        sw4 == x = nleft
        sw5 == x = nright
        switch == sw1 \/ sw2 \/ sw3 \/ sw4 \/ sw5
        ovfSwitch ==
            ~sw1 /\ (ovfLeft \/ (~sw2 /\ (ovfRight \/ (~sw3 /\
                        (ovfNleft \/ (~sw4 /\ ovfNright))))))
        inArt == y_text /\ ULe(left, x) /\ ULt(x, right)
        ovfArt == y_text /\ (ovfLeft \/ (ULe(left, x) /\ ovfRight))
        inNotice == y = g.notice_y /\ ULe(nleft, x) /\ ULt(x, nright)
        ovfInNotice == y = g.notice_y /\ (ovfNleft \/ (ULe(nleft, x) /\ ovfNright))
        dark == inArt \/ inNotice
        ovfDark == switch /\ (ovfArt \/ (~inArt /\ ovfInNotice))
        c == Colors[((idx \div g.block_width) % Len(Colors)) + 1]
        isText == y_text /\ ULe(g.text_start_x, x) /\ ULt(x, g.text_end_x)
        isNotice == y = g.notice_y /\ ULe(g.notice_start_x, x) /\ ULt(x, g.notice_end_x)
        trow == y - g.text_start_y
        tcol == x - g.text_start_x
        ncol == x - g.notice_start_x
        oob ==
            IF isText
            THEN \/ trow \notin 0..(Len(text_lines) - 1)
                 \/ tcol \notin 0..(Len(text_lines[trow + 1]) - 1)
            ELSE isNotice /\ ncol \notin 0..(Len(NOTICE) - 1)
    IN  [idx |-> idx,
         ovf |-> ovfEdge \/ ovfSwitch \/ ovfDark,
         oob |-> oob,
         switch |-> switch,
         bg |-> IF dark THEN Overlaid(c) ELSE Plain(c),
         ch |-> IF oob THEN ""
                ELSE IF isText THEN text_lines[trow + 1][tcol + 1]
                ELSE IF isNotice THEN NOTICE[ncol + 1]
                ELSE " "]

\* ------------------------------------------------------------------ state
VARIABLES
    key_pressed,      \* the AtomicBool shared by watcher and driver
    input,            \* length in bytes of the watcher's String
    stdin,            \* lines waiting on standard input (their byte lengths)
    arrived,          \* lines delivered so far
    eof,              \* standard input is at end of stream
    wpc,              \* watcher: "unborn", "read", "match", "done"
    res,              \* result of the watcher's last read_line
    errlog,           \* messages the watcher wrote to standard error
    stores,           \* stores into key_pressed performed so far
    store_at,         \* Len(log) when the store happened, -1 before
    overflow_checks,  \* the build aborts on arithmetic overflow
    dpc,              \* driver: position in start_animation
    w, h,             \* terminal size
    geo,              \* layout
    frame,            \* frame counter
    buf,              \* frame index the composed buffer was drawn for, -1: none
    error,            \* context of the error start_animation returned
    log,              \* steps the driver performed, in order
    cpc,              \* draw_frame: "idle", "row", "cell", "done", "panic"
    cy, cx,           \* draw_frame: the loop counters y and x
    bg,               \* background the escapes pushed so far leave in effect
    cell,             \* the cell pushed last
    rows,             \* cells pushed in each row of buf, the current one last
    seps,             \* rows of buf a line separator was pushed after
    wrapped           \* an operation of draw_frame left the usize range

vars == <<key_pressed, input, stdin, arrived, eof, wpc, res, errlog, stores,
          store_at, overflow_checks, dpc, w, h, geo, frame, buf, error, log,
          cpc, cy, cx, bg, cell, rows, seps, wrapped>>

watcherVars == <<key_pressed, input, wpc, res, errlog, stores, store_at>>

envVars == <<stdin, arrived, eof>>

driverVars == <<dpc, w, h, geo, frame, buf, error, log>>

composeVars == <<cpc, cy, cx, bg, cell, rows, seps, wrapped>>

\* draw_frame is not running and has pushed nothing.
ComposeIdle ==
    /\ cpc = "idle"
    /\ cy = 0
    /\ cx = 0
    /\ bg = NoBg
    /\ cell = NoCell
    /\ rows = <<>>
    /\ seps = {}
    /\ wrapped = FALSE

Ev(op, f, v) == [op |-> op, frame |-> f, val |-> v]

NoRes == [kind |-> "none", n |-> 0]

Init ==
    /\ key_pressed = FALSE
    /\ input = 0
    /\ stdin = <<>>
    /\ arrived = 0
    /\ eof = FALSE
    /\ wpc = "unborn"
    /\ res = NoRes
    /\ errlog = 0
    /\ stores = 0
    /\ store_at = -1
    /\ overflow_checks \in BOOLEAN
    /\ dpc = "spawn"
    /\ w = 0
    /\ h = 0
    /\ geo = NoGeo
    /\ frame = 0
    /\ buf = -1
    /\ error = "none"
    /\ log = <<>>
    /\ ComposeIdle

\* ------------------------------------------------------------ environment
LineArrives ==
    /\ ~eof
    /\ arrived < MaxLines
    /\ \E n \in LineLens : stdin' = Append(stdin, n)
    /\ arrived' = arrived + 1
    /\ UNCHANGED <<eof, overflow_checks>>
    /\ UNCHANGED watcherVars
    /\ UNCHANGED driverVars
    /\ UNCHANGED composeVars

EndOfInput ==
    /\ ~eof
    /\ eof' = TRUE
    /\ UNCHANGED <<stdin, arrived, overflow_checks>>
    /\ UNCHANGED watcherVars
    /\ UNCHANGED driverVars
    /\ UNCHANGED composeVars

\* ---------------------------------------------------------------- watcher
\* io::stdin().read_line(&mut input) returns a line.
ReadLine ==
    /\ wpc = "read"
    /\ stdin # <<>>
    /\ res' = [kind |-> "Ok", n |-> Head(stdin)]
    /\ input' = input + Head(stdin)
    /\ stdin' = Tail(stdin)
    /\ wpc' = "match"
    /\ UNCHANGED <<key_pressed, errlog, stores, store_at, arrived, eof,
                   overflow_checks>>
    /\ UNCHANGED driverVars
    /\ UNCHANGED composeVars

\* read_line returns Ok(0): end of stream.  On a terminal the condition
\* clears with the read, on a pipe or file it stays.
ReadEof ==
    /\ wpc = "read"
    /\ stdin = <<>>
    /\ eof
    /\ res' = [kind |-> "Ok", n |-> 0]
    /\ eof' \in BOOLEAN
    /\ wpc' = "match"
    /\ UNCHANGED <<key_pressed, input, errlog, stores, store_at, stdin, arrived,
                   overflow_checks>>
    /\ UNCHANGED driverVars
    /\ UNCHANGED composeVars

\* read_line returns Err; bytes read before the error may stay in input.
ReadErr ==
    /\ wpc = "read"
    /\ errlog < MaxErrs
    /\ res' = [kind |-> "Err", n |-> 0]
    /\ \E part \in 0..1 : input' = input + part
    /\ wpc' = "match"
    /\ UNCHANGED <<key_pressed, errlog, stores, store_at, overflow_checks>>
    /\ UNCHANGED envVars
    /\ UNCHANGED driverVars
    /\ UNCHANGED composeVars

\* Ok(0) => {}: back to the head of the loop.
WatcherEof ==
    /\ wpc = "match"
    /\ res.kind = "Ok"
    /\ res.n = 0
    /\ wpc' = "read"
    /\ UNCHANGED <<key_pressed, input, res, errlog, stores, store_at,
                   overflow_checks>>
    /\ UNCHANGED envVars
    /\ UNCHANGED driverVars
    /\ UNCHANGED composeVars

\* Faulty variant of WatcherStore: the break is missing.
WatcherStoreBreaksNot ==
    /\ wpc = "match"
    /\ res.kind = "Ok"
    /\ res.n # 0
    /\ key_pressed' = TRUE
    /\ stores' = stores + 1
    /\ store_at' = Len(log)
    /\ wpc' = "read"
    /\ UNCHANGED <<input, res, errlog, overflow_checks>>
    /\ UNCHANGED envVars
    /\ UNCHANGED driverVars
    /\ UNCHANGED composeVars

\* Ok(_) => { key_pressed.store(true, Release); break; }
WatcherStore ==
    /\ wpc = "match"
    /\ res.kind = "Ok"
    /\ res.n # 0
    /\ key_pressed' = TRUE
    /\ stores' = stores + 1
    /\ store_at' = Len(log)
    /\ wpc' = "done"
    /\ UNCHANGED <<input, res, errlog, overflow_checks>>
    /\ UNCHANGED envVars
    /\ UNCHANGED driverVars
    /\ UNCHANGED composeVars

\* Faulty variant of WatcherErr: the error ends the watcher.
WatcherErrBreaks ==
    /\ wpc = "match"
    /\ res.kind = "Err"
    /\ errlog' = errlog + 1
    /\ wpc' = "done"
    /\ UNCHANGED <<key_pressed, input, res, stores, store_at, overflow_checks>>
    /\ UNCHANGED envVars
    /\ UNCHANGED driverVars
    /\ UNCHANGED composeVars

\* Err(err) => { eprintln!(...) }: back to the head of the loop.
WatcherErr ==
    /\ wpc = "match"
    /\ res.kind = "Err"
    /\ errlog' = errlog + 1
    /\ wpc' = "read"
    /\ UNCHANGED <<key_pressed, input, res, stores, store_at, overflow_checks>>
    /\ UNCHANGED envVars
    /\ UNCHANGED driverVars
    /\ UNCHANGED composeVars

Watcher ==
    \/ ReadLine
    \/ ReadEof
    \/ ReadErr
    \/ WatcherEof
    \/ WatcherStore
    \/ WatcherErr

\* ----------------------------------------------------------------- driver
buildVars == <<overflow_checks>>

\* Faulty variant of Spawn: the watcher is not started before the size
\* lookup.
SpawnDeferred ==
    /\ dpc = "spawn"
    /\ dpc' = "size"
    /\ UNCHANGED <<w, h, geo, frame, buf, error, log>>
    /\ UNCHANGED watcherVars
    /\ UNCHANGED envVars
    /\ UNCHANGED buildVars
    /\ UNCHANGED composeVars

\* thread::spawn: the watcher starts at the head of its loop.
Spawn ==
    /\ dpc = "spawn"
    /\ wpc' = "read"
    /\ dpc' = "size"
    /\ UNCHANGED <<key_pressed, input, res, errlog, stores, store_at>>
    /\ UNCHANGED <<w, h, geo, frame, buf, error, log>>
    /\ UNCHANGED envVars
    /\ UNCHANGED buildVars
    /\ UNCHANGED composeVars

\* terminal_size() ... .context("failed to get terminal size")?
TermSize ==
    /\ dpc = "size"
    /\ \/ \E sz \in MainSizes :
              /\ w' = sz[1]
              /\ h' = sz[2]
              /\ log' = Append(log, Ev("size", frame, TRUE))
              /\ dpc' = "layout"
              /\ error' = error
       \/ /\ log' = Append(log, Ev("size", frame, FALSE))
          /\ dpc' = "err"
          /\ error' = "failed to get terminal size"
          /\ UNCHANGED <<w, h>>
    /\ UNCHANGED <<geo, frame, buf>>
    /\ UNCHANGED watcherVars
    /\ UNCHANGED envVars
    /\ UNCHANGED buildVars
    /\ UNCHANGED composeVars

\* Faulty variant of DoLayout: the loop tests the flag before its first tick.
DoLayoutTestsFirst ==
    /\ dpc = "layout"
    /\ geo' = Layout(w, h)
    /\ dpc' = IF geo'.panic /\ overflow_checks THEN "panic" ELSE "load"
    /\ UNCHANGED <<w, h, frame, buf, error, log>>
    /\ UNCHANGED watcherVars
    /\ UNCHANGED envVars
    /\ UNCHANGED buildVars
    /\ UNCHANGED composeVars

\* Lines 66-76.
DoLayout ==
    /\ dpc = "layout"
    /\ geo' = Layout(w, h)
    /\ dpc' = IF geo'.panic /\ overflow_checks THEN "panic" ELSE "clear"
    /\ UNCHANGED <<w, h, frame, buf, error, log>>
    /\ UNCHANGED watcherVars
    /\ UNCHANGED envVars
    /\ UNCHANGED buildVars
    /\ UNCHANGED composeVars

\* A fallible terminal operation op at position from: on success the driver
\* goes on at next, on failure `?` returns the error with context ctx.
Fallible(from, op, f, next, ctx) ==
    /\ dpc = from
    /\ \E ok \in BOOLEAN :
          /\ log' = Append(log, Ev(op, f, ok))
          /\ dpc' = IF ok THEN next ELSE "err"
          /\ error' = IF ok THEN error ELSE ctx
    /\ UNCHANGED <<w, h, geo, frame, buf>>
    /\ UNCHANGED watcherVars
    /\ UNCHANGED envVars
    /\ UNCHANGED buildVars
    /\ UNCHANGED composeVars

\* Faulty variant of ClearScreen: the result is dropped instead of returned.
ClearScreenIgnoresError ==
    /\ dpc = "clear"
    /\ \E ok \in BOOLEAN : log' = Append(log, Ev("clear", frame, ok))
    /\ dpc' = "compose"
    /\ UNCHANGED <<w, h, geo, frame, buf, error>>
    /\ UNCHANGED watcherVars
    /\ UNCHANGED envVars
    /\ UNCHANGED buildVars
    /\ UNCHANGED composeVars

\* clear_screen(None, color_mode, false).context("failed to clear screen")?
ClearScreen ==
    Fallible("clear", "clear", frame, "compose", "failed to clear screen")

\* draw_frame(frame), lines 90-148: the buffer for the current frame.
Compose ==
    /\ dpc = "compose"
    /\ buf' = frame
    /\ log' = Append(log, Ev("compose", frame, TRUE))
    /\ dpc' = "write"
    /\ UNCHANGED <<w, h, geo, frame, error>>
    /\ UNCHANGED watcherVars
    /\ UNCHANGED envVars
    /\ UNCHANGED buildVars
    /\ UNCHANGED composeVars

\* write!(io::stdout(), "{buf}")
WriteBuf ==
    Fallible("write", "write", buf, "flush", "failed to write buf to stdout")

\* Faulty variant of Flush: the driver goes on at the sleep, past frame += speed.
FlushSkipsAdvance ==
    Fallible("flush", "flush", buf, "sleep", "failed to write buf to stdout")

\* .and_then(|_| io::stdout().flush())
Flush ==
    Fallible("flush", "flush", buf, "advance", "failed to write buf to stdout")

\* Faulty variant of Advance: the counter moves by 1.
AdvanceByOne ==
    /\ dpc = "advance"
    /\ frame' = frame + 1
    /\ log' = Append(log, Ev("advance", frame', TRUE))
    /\ dpc' = "sleep"
    /\ UNCHANGED <<w, h, geo, buf, error>>
    /\ UNCHANGED watcherVars
    /\ UNCHANGED envVars
    /\ UNCHANGED buildVars
    /\ UNCHANGED composeVars

\* frame += speed
Advance ==
    /\ dpc = "advance"
    /\ frame' = frame + speed
    /\ log' = Append(log, Ev("advance", frame', TRUE))
    /\ dpc' = "sleep"
    /\ UNCHANGED <<w, h, geo, buf, error>>
    /\ UNCHANGED watcherVars
    /\ UNCHANGED envVars
    /\ UNCHANGED buildVars
    /\ UNCHANGED composeVars

\* Faulty variant of Sleep: the driver waits for the watcher to finish.
SleepJoinsWatcher ==
    /\ dpc = "sleep"
    /\ wpc = "done"
    /\ log' = Append(log, Ev("sleep", frame, TRUE))
    /\ dpc' = "load"
    /\ UNCHANGED <<w, h, geo, frame, buf, error>>
    /\ UNCHANGED watcherVars
    /\ UNCHANGED envVars
    /\ UNCHANGED buildVars
    /\ UNCHANGED composeVars

\* thread::sleep(frame_delay)
Sleep ==
    /\ dpc = "sleep"
    /\ log' = Append(log, Ev("sleep", frame, TRUE))
    /\ dpc' = "load"
    /\ UNCHANGED <<w, h, geo, frame, buf, error>>
    /\ UNCHANGED watcherVars
    /\ UNCHANGED envVars
    /\ UNCHANGED buildVars
    /\ UNCHANGED composeVars

\* Faulty variant of LoadFlag: the value read is ignored.
LoadFlagNeverBreaks ==
    /\ dpc = "load"
    /\ key_pressed \/ frame < speed * MaxTicks
    /\ log' = Append(log, Ev("load", frame, key_pressed))
    /\ dpc' = "clear"
    /\ UNCHANGED <<w, h, geo, frame, buf, error>>
    /\ UNCHANGED watcherVars
    /\ UNCHANGED envVars
    /\ UNCHANGED buildVars
    /\ UNCHANGED composeVars

\* Faulty variant of LoadFlag: swap(false) instead of load.
LoadFlagSwaps ==
    /\ dpc = "load"
    /\ key_pressed \/ frame < speed * MaxTicks
    /\ log' = Append(log, Ev("load", frame, key_pressed))
    /\ dpc' = IF key_pressed THEN "reset" ELSE "clear"
    /\ key_pressed' = FALSE
    /\ UNCHANGED <<w, h, geo, frame, buf, error>>
    /\ UNCHANGED <<input, wpc, res, errlog, stores, store_at>>
    /\ UNCHANGED envVars
    /\ UNCHANGED buildVars
    /\ UNCHANGED composeVars

\* if key_pressed.load(Ordering::Acquire) { break; }
\* A behaviour starts at most MaxTicks ticks: the loop is not followed back
\* beyond that.
LoadFlag ==
    /\ dpc = "load"
    /\ key_pressed \/ frame < speed * MaxTicks
    /\ log' = Append(log, Ev("load", frame, key_pressed))
    /\ dpc' = IF key_pressed THEN "reset" ELSE "clear"
    /\ UNCHANGED <<w, h, geo, frame, buf, error>>
    /\ UNCHANGED watcherVars
    /\ UNCHANGED envVars
    /\ UNCHANGED buildVars
    /\ UNCHANGED composeVars

\* printc("&r", color_mode).context("failed to reset terminal style")?
ResetStyle ==
    Fallible("reset", "reset", frame, "final_clear",
             "failed to reset terminal style")

\* clear_screen(None, color_mode, false).context("failed to clear screen")?
FinalClear ==
    Fallible("final_clear", "final_clear", frame, "ok", "failed to clear screen")

Driver ==
    \/ Spawn
    \/ TermSize
    \/ DoLayout
    \/ ClearScreen
    \/ Compose
    \/ WriteBuf
    \/ Flush
    \/ Advance
    \/ Sleep
    \/ LoadFlag
    \/ ResetStyle
    \/ FinalClear

Environment ==
    \/ LineArrives
    \/ EndOfInput

Next ==
    \/ Driver
    \/ Watcher
    \/ Environment

Spec == Init /\ [][Next]_vars

\* The driver thread keeps being scheduled and its sleep returns.
DriverFairSpec == Spec /\ WF_vars(Driver)

\* The layout alone, from the state after a successful size lookup, for
\* every terminal size up to MaxW x MaxH.
LayoutInit ==
    /\ key_pressed = FALSE
    /\ input = 0
    /\ stdin = <<>>
    /\ arrived = 0
    /\ eof = FALSE
    /\ wpc = "read"
    /\ res = NoRes
    /\ errlog = 0
    /\ stores = 0
    /\ store_at = -1
    /\ overflow_checks \in BOOLEAN
    /\ dpc = "layout"
    /\ w \in 0..MaxW
    /\ h \in 0..MaxH
    /\ geo = NoGeo
    /\ frame = 0
    /\ buf = -1
    /\ error = "none"
    /\ log = <<Ev("size", 0, TRUE)>>
    /\ ComposeIdle

LayoutNext == DoLayout

LayoutSpec == LayoutInit /\ [][LayoutNext]_vars

\* ------------------------------------------------- draw_frame, by steps
\* The steps of draw_frame leave the watcher, the environment and the
\* driver's other variables alone.
composeRest == <<w, h, geo, frame, error, overflow_checks>>

\* let mut buf = String::new(); for y in 0..h
BeginFrame ==
    /\ dpc = "compose"
    /\ cpc \in {"idle", "done"}
    /\ cpc' = "row"
    /\ cy' = 0
    /\ cx' = 0
    /\ bg' = NoBg
    /\ cell' = NoCell
    /\ rows' = <<>>
    /\ seps' = {}
    /\ UNCHANGED <<wrapped, dpc, buf, log>>
    /\ UNCHANGED composeRest
    /\ UNCHANGED watcherVars
    /\ UNCHANGED envVars

\* Lines 95-97: the starting colour of row y; for x in 0..w
RowStart ==
    /\ dpc = "compose"
    /\ cpc = "row"
    /\ cy < h
    /\ LET rs == RowStartColor(frame, cy, geo)
       IN  IF rs.div0
           THEN /\ cpc' = "panic"
                /\ dpc' = "panic"
                /\ UNCHANGED <<bg, rows, cx>>
           ELSE /\ cpc' = "cell"
                /\ dpc' = dpc
                /\ bg' = rs.bg
                /\ rows' = Append(rows, 0)
                /\ cx' = 0
    /\ UNCHANGED <<cy, cell, seps, wrapped, buf, log>>
    /\ UNCHANGED composeRest
    /\ UNCHANGED watcherVars
    /\ UNCHANGED envVars

\* Faulty variant of CellStep: once the flag is set the cell is left blank.
CellStepReadsFlag ==
    /\ dpc = "compose"
    /\ cpc = "cell"
    /\ cx < w
    /\ LET d == DrawCell(frame, cx, cy, geo)
       IN  /\ wrapped' = (wrapped \/ d.ovf)
           /\ IF (d.ovf /\ overflow_checks) \/ d.oob
              THEN /\ cpc' = "panic"
                   /\ dpc' = "panic"
                   /\ UNCHANGED <<bg, cell, rows, cx>>
              ELSE /\ cpc' = cpc
                   /\ dpc' = dpc
                   /\ bg' = IF d.switch THEN d.bg ELSE bg
                   /\ cell' = [x |-> cx, y |-> cy, idx |-> d.idx, ch |-> IF key_pressed THEN " " ELSE d.ch,
                               bg |-> bg']
                   /\ rows' = [rows EXCEPT ![Len(rows)] = @ + 1]
                   /\ cx' = cx + 1
    /\ UNCHANGED <<cy, seps, buf, log>>
    /\ UNCHANGED composeRest
    /\ UNCHANGED watcherVars
    /\ UNCHANGED envVars

\* Faulty variant of CellStep: the character is looked up one column to the
\* right.
CellStepNextColumn ==
    /\ dpc = "compose"
    /\ cpc = "cell"
    /\ cx < w
    /\ LET d == DrawCell(frame, cx, cy, geo)
       IN  /\ wrapped' = (wrapped \/ d.ovf)
           /\ IF (d.ovf /\ overflow_checks) \/ d.oob
              THEN /\ cpc' = "panic"
                   /\ dpc' = "panic"
                   /\ UNCHANGED <<bg, cell, rows, cx>>
              ELSE /\ cpc' = cpc
                   /\ dpc' = dpc
                   /\ bg' = IF d.switch THEN d.bg ELSE bg
                   /\ cell' = [x |-> cx, y |-> cy, idx |-> d.idx, ch |-> DrawCell(frame, cx + 1, cy, geo).ch,
                               bg |-> bg']
                   /\ rows' = [rows EXCEPT ![Len(rows)] = @ + 1]
                   /\ cx' = cx + 1
    /\ UNCHANGED <<cy, seps, buf, log>>
    /\ UNCHANGED composeRest
    /\ UNCHANGED watcherVars
    /\ UNCHANGED envVars

\* Lines 101-140: one cell.
CellStep ==
    /\ dpc = "compose"
    /\ cpc = "cell"
    /\ cx < w
    /\ LET d == DrawCell(frame, cx, cy, geo)
       IN  /\ wrapped' = (wrapped \/ d.ovf)
           /\ IF (d.ovf /\ overflow_checks) \/ d.oob
              THEN /\ cpc' = "panic"
                   /\ dpc' = "panic"
                   /\ UNCHANGED <<bg, cell, rows, cx>>
              ELSE /\ cpc' = cpc
                   /\ dpc' = dpc
                   /\ bg' = IF d.switch THEN d.bg ELSE bg
                   /\ cell' = [x |-> cx, y |-> cy, idx |-> d.idx, ch |-> d.ch,
                               bg |-> bg']
                   /\ rows' = [rows EXCEPT ![Len(rows)] = @ + 1]
                   /\ cx' = cx + 1
    /\ UNCHANGED <<cy, seps, buf, log>>
    /\ UNCHANGED composeRest
    /\ UNCHANGED watcherVars
    /\ UNCHANGED envVars

\* Faulty variant of RowEnd: the separator is pushed after the last row as
\* well.
RowEndAlwaysSeparates ==
    /\ dpc = "compose"
    /\ cpc = "cell"
    /\ cx = w
    /\ seps' = seps \cup {cy}
    /\ bg' = NoBg
    /\ cy' = cy + 1
    /\ cpc' = "row"
    /\ UNCHANGED <<cx, cell, rows, wrapped, dpc, buf, log>>
    /\ UNCHANGED composeRest
    /\ UNCHANGED watcherVars
    /\ UNCHANGED envVars

\* Lines 144-147: the reset and the newline after every row but the last.
RowEnd ==
    /\ dpc = "compose"
    /\ cpc = "cell"
    /\ cx = w
    /\ IF cy # h - 1
       THEN /\ seps' = seps \cup {cy}
            /\ bg' = NoBg
       ELSE UNCHANGED <<seps, bg>>
    /\ cy' = cy + 1
    /\ cpc' = "row"
    /\ UNCHANGED <<cx, cell, rows, wrapped, dpc, buf, log>>
    /\ UNCHANGED composeRest
    /\ UNCHANGED watcherVars
    /\ UNCHANGED envVars

\* The loop over the rows ends: buf is complete.
EndFrame ==
    /\ dpc = "compose"
    /\ cpc = "row"
    /\ cy = h
    /\ cpc' = "done"
    /\ buf' = frame
    /\ log' = Append(log, Ev("compose", frame, TRUE))
    /\ dpc' = "write"
    /\ UNCHANGED <<cy, cx, bg, cell, rows, seps, wrapped>>
    /\ UNCHANGED composeRest
    /\ UNCHANGED watcherVars
    /\ UNCHANGED envVars

DrawFrame ==
    \/ BeginFrame
    \/ RowStart
    \/ CellStep
    \/ RowEnd
    \/ EndFrame

\* Terminal sizes draw_frame is stepped for: the widths around the exact
\* fit of the art at heights with and without the notice on an art row,
\* sizes too small for the art, for the notice or for nine stripes, the
\* size of the specification's scenario, and one wide enough to keep the
\* notice clear of the art.
ComposeSizes ==
    ((56..61) \X {6, 7, 8})
        \cup ({0, 8, 9, 24, 25, 30} \X {0, 1, 5, 7})
        \cup {<<80, 24>>, <<103, 6>>}

\* The state after a successful size lookup, for the sizes of ComposeSizes.
ComposeInit ==
    /\ key_pressed = FALSE
    /\ input = 0
    /\ stdin = <<>>
    /\ arrived = 0
    /\ eof = FALSE
    /\ wpc = "read"
    /\ res = NoRes
    /\ errlog = 0
    /\ stores = 0
    /\ store_at = -1
    /\ overflow_checks \in BOOLEAN
    /\ dpc = "layout"
    /\ \E sz \in ComposeSizes : w = sz[1] /\ h = sz[2]
    /\ geo = NoGeo
    /\ frame = 0
    /\ buf = -1
    /\ error = "none"
    /\ log = <<Ev("size", 0, TRUE)>>
    /\ ComposeIdle

\* The driver with draw_frame taken cell by cell, the watcher blocked in
\* its read.
ComposeNext ==
    \/ DoLayout
    \/ ClearScreen
    \/ DrawFrame
    \/ WriteBuf
    \/ Flush
    \/ Advance
    \/ Sleep
    \/ LoadFlag

ComposeSpec == ComposeInit /\ [][ComposeNext]_vars

\* Terminal sizes for which draw_frame is stepped while the watcher takes
\* its steps: the art fits with two columns to spare on each side, the
\* notice shares the last art row.
DetSizes == {<<60, 6>>}

\* The state after a successful size lookup in a build with overflow checks
\* (no operation overflows for the sizes of DetSizes), with the input that
\* has arrived by then.
DetInit ==
    /\ key_pressed = FALSE
    /\ input = 0
    /\ stdin \in {<<>>} \cup {<<n>> : n \in LineLens}
    /\ arrived = Len(stdin)
    /\ eof \in BOOLEAN
    /\ wpc = "read"
    /\ res = NoRes
    /\ errlog = 0
    /\ stores = 0
    /\ store_at = -1
    /\ overflow_checks = TRUE
    /\ dpc = "layout"
    /\ \E sz \in DetSizes : w = sz[1] /\ h = sz[2]
    /\ geo = NoGeo
    /\ frame = 0
    /\ buf = -1
    /\ error = "none"
    /\ log = <<Ev("size", 0, TRUE)>>
    /\ ComposeIdle

\* The two threads, draw_frame taken cell by cell; standard input holds
\* what arrived before the size lookup.
DetNext ==
    \/ DoLayout
    \/ ClearScreen
    \/ DrawFrame
    \/ WriteBuf
    \/ Flush
    \/ Advance
    \/ Sleep
    \/ LoadFlag
    \/ ResetStyle
    \/ FinalClear
    \/ Watcher

DetSpec == DetInit /\ [][DetNext]_vars

\* The frame index at which row 5 has the sine argument SinIsOne.
LateFrame == speed * (SinIsOne - 5)

\* The state in which draw_frame(LateFrame) starts on a terminal of 80 x 24,
\* after LateFrame / speed ticks without a key press; of the steps before,
\* the log keeps the last load and the clear_screen of this tick.
LateInit ==
    /\ key_pressed = FALSE
    /\ input = 0
    /\ stdin = <<>>
    /\ arrived = 0
    /\ eof = FALSE
    /\ wpc = "read"
    /\ res = NoRes
    /\ errlog = 0
    /\ stores = 0
    /\ store_at = -1
    /\ overflow_checks \in BOOLEAN
    /\ dpc = "compose"
    /\ w = 80
    /\ h = 24
    /\ geo = Layout(80, 24)
    /\ frame = LateFrame
    /\ buf = LateFrame - speed
    /\ error = "none"
    /\ log = <<Ev("load", LateFrame, FALSE), Ev("clear", LateFrame, TRUE)>>
    /\ cpc = "row"
    /\ cy = 0
    /\ cx = 0
    /\ bg = NoBg
    /\ cell = NoCell
    /\ rows = <<>>
    /\ seps = {}
    /\ wrapped = FALSE

\* The rest of that tick, up to the load of the flag.
LateNext ==
    \/ RowStart
    \/ CellStep
    \/ RowEnd
    \/ EndFrame
    \/ WriteBuf
    \/ Flush
    \/ Advance
    \/ Sleep

LateSpec == LateInit /\ [][LateNext]_vars

\* ----------------------------------------------------------------- claims
Terminated == dpc \in {"ok", "err", "panic"}

\* Positions of the log after position from that hold step op.
Steps(op, from) == {i \in (from + 1)..Len(log) : log[i].op = op}

\* C1: once the flag is set the driver starts at most one further tick, then
\* resets the style and clears the screen once each, in that order, and
\* returns success unless a terminal operation fails; under a fair schedule
\* of the driver it does terminate.
C1_Safety ==
    /\ key_pressed => Cardinality(Steps("clear", store_at)) <= 1
    /\ Cardinality(Steps("reset", 0)) <= 1
    /\ Cardinality(Steps("final_clear", 0)) <= 1
    /\ Steps("reset", 0) # {} => key_pressed /\ Steps("reset", 0) = Steps("reset", store_at)
    /\ dpc = "ok" =>
          /\ error = "none"
          /\ Len(log) >= 3
          /\ log[Len(log)] = Ev("final_clear", frame, TRUE)
          /\ log[Len(log) - 1] = Ev("reset", frame, TRUE)
          /\ log[Len(log) - 2] = Ev("load", frame, TRUE)

C1_DriverStopsAfterCancel ==
    /\ []C1_Safety
    /\ key_pressed ~> Terminated

C1_Witness ==
    /\ dpc = "ok"
    /\ Cardinality(Steps("clear", store_at)) = 1
    /\ store_at > 1

\* C2: the flag starts false, never goes from true to false, and changes
\* only in a step of the watcher that leaves the driver where it is.
C2_FlagMonotone ==
    /\ key_pressed = FALSE
    /\ [][ /\ key_pressed => key_pressed'
           /\ key_pressed' # key_pressed =>
                 /\ wpc = "match"
                 /\ wpc' # wpc
                 /\ UNCHANGED driverVars ]_vars

C2_Witness ==
    /\ key_pressed
    /\ dpc = "ok"
    /\ \E i \in Steps("load", 0) : log[i].val

\* C3: the first line read, a bare newline included, makes the watcher store
\* true once and terminate; afterwards it reads nothing and stores nothing,
\* whatever arrives.
C3_FirstLineStopsWatcher ==
    /\ [][ (wpc = "match" /\ res.kind = "Ok" /\ res.n > 0 /\ wpc' # wpc) =>
              (key_pressed' /\ wpc' = "done" /\ stores' = stores + 1) ]_vars
    /\ [][ wpc = "done" =>
              /\ wpc' = "done"
              /\ UNCHANGED <<key_pressed, input, res, stores, errlog>>
              /\ Len(stdin') >= Len(stdin) ]_vars
    /\ [](stores <= 1 /\ (stores = 1 <=> wpc = "done") /\ (stores = 1 <=> key_pressed))
    /\ [](arrived - Len(stdin) <= 1)

C3_Witness ==
    /\ wpc = "done"
    /\ res = [kind |-> "Ok", n |-> 1]
    /\ stores = 1
    /\ arrived = MaxLines
    /\ Len(stdin) = MaxLines - 1

\* C4: after end-of-stream or a read error the watcher is back at its read
\* with the flag and the driver untouched; while no line has been read the
\* flag is false, the watcher runs and start_animation has not returned
\* success.
C4_EofAndErrorsRetry ==
    /\ [][ (wpc = "match" /\ (res.kind = "Err" \/ res.n = 0) /\ wpc' # wpc) =>
              (wpc' = "read" /\ key_pressed' = key_pressed /\ UNCHANGED driverVars) ]_vars
    /\ [](arrived - Len(stdin) = 0 =>
              /\ ~key_pressed
              /\ wpc # "done"
              /\ dpc # "ok"
              /\ Steps("reset", 0) = {})
    /\ [](error \in {"none", "failed to get terminal size", "failed to clear screen",
                     "failed to write buf to stdout", "failed to reset terminal style"})

C4_Witness ==
    /\ errlog = MaxErrs
    /\ res = [kind |-> "Ok", n |-> 0]
    /\ wpc = "read"
    /\ ~key_pressed
    /\ Cardinality(Steps("load", 0)) >= 2

\* The step that follows step op of a tick when op succeeded.
TickSuccessor(op) ==
    CASE op = "clear" -> "compose"
      [] op = "compose" -> "write"
      [] op = "write" -> "flush"
      [] op = "flush" -> "advance"
      [] op = "advance" -> "sleep"
      [] op = "sleep" -> "load"
      [] OTHER -> "none"

\* C5: the steps of every tick are clear, compose, write, flush, advance,
\* sleep, load, in this order and once each; the buffer written is the one
\* composed for the frame counter of the tick; the flag is read only after
\* the sleep; a tick starts only first or after the flag was read false.
C5_TickOrder ==
    \A i \in 2..Len(log) :
        LET prev == log[i - 1]
            cur == log[i]
        IN  /\ prev.op \in {"clear", "compose", "write", "flush", "advance", "sleep"} =>
                  /\ prev.val
                  /\ cur.op = TickSuccessor(prev.op)
            /\ cur.op = "clear" =>
                  \/ prev.op = "size"
                  \/ prev.op = "load" /\ ~prev.val
            /\ cur.op = "load" => prev.op = "sleep"
            /\ cur.op \in {"compose", "write", "flush"} => cur.frame = prev.frame
            /\ cur.op = "advance" => cur.frame = prev.frame + 2
            /\ cur.op \in {"sleep", "load"} => cur.frame = prev.frame

C5_Witness ==
    /\ Cardinality(Steps("load", 0)) = 2
    /\ Cardinality(Steps("clear", 0)) = 3
    /\ dpc = "compose"

\* The context of the error a failed step returns.
Context(op) ==
    CASE op = "size" -> "failed to get terminal size"
      [] op \in {"clear", "final_clear"} -> "failed to clear screen"
      [] op \in {"write", "flush"} -> "failed to write buf to stdout"
      [] op = "reset" -> "failed to reset terminal style"
      [] OTHER -> "none"

Fails(e) == e.op # "load" /\ ~e.val

\* C6: a failed size lookup, clear, write or flush is the last step of the
\* driver: start_animation has returned its error and does nothing more.
C6_ErrorsAreFatal ==
    /\ [](\A i \in 1..Len(log) :
              Fails(log[i]) =>
                  /\ i = Len(log)
                  /\ dpc = "err"
                  /\ error = Context(log[i].op))
    /\ [](dpc = "err" => Len(log) >= 1 /\ Fails(log[Len(log)]))
    /\ [][dpc = "err" => UNCHANGED driverVars]_vars

C6_Witness ==
    /\ dpc = "err"
    /\ log[Len(log)].op = "flush"
    /\ Cardinality(Steps("clear", 0)) = 2
    /\ key_pressed

\* C7: the frame counter starts at 0 and changes only by +2; the k-th
\* compose of a run draws frame 2*(k-1), so no two draw the same frame.
C7_FrameCounter ==
    /\ frame = 0
    /\ [][frame' = frame \/ frame' = frame + 2]_vars
    /\ [](\A i \in Steps("compose", 0) :
              log[i].frame = 2 * Cardinality({j \in Steps("compose", 0) : j < i}))
    /\ [](\A i, j \in Steps("compose", 0) : log[i].frame = log[j].frame => i = j)
    /\ [](frame = 2 * Cardinality(Steps("advance", 0)))

C7_Witness ==
    /\ Cardinality(Steps("compose", 0)) = MaxTicks
    /\ log[Len(log)] = Ev("compose", 2 * (MaxTicks - 1), TRUE)

\* Every frame of the ticks a behaviour may start has been written and
\* flushed.
AllRendered ==
    \A k \in 0..(MaxTicks - 1) :
        \E i \in Steps("flush", 0) : log[i].frame = speed * k /\ log[i].val

\* The driver is at the end of the last tick a behaviour may start.
AtTickBound == dpc = "load" /\ ~key_pressed /\ frame >= speed * MaxTicks

\* C8: whatever the watcher does, the driver's next step is enabled until it
\* has returned, and under a fair schedule of the driver every frame is
\* rendered unless the flag is set or a terminal operation fails.
C8_DriverNeverWaits ==
    /\ []((~Terminated /\ ~AtTickBound) => ENABLED Driver)
    /\ <>(key_pressed \/ Terminated \/ AllRendered)

C8_Witness ==
    /\ AllRendered
    /\ wpc = "read"
    /\ arrived = 0
    /\ ~eof
    /\ errlog = 0
    /\ ~key_pressed

LayoutDone == dpc \in {"clear", "panic"}

\* C9 as stated: at 80 x 24 the notice starts at column 55 and the art box
\* spans columns 13 to 67.
C9_Original ==
    (LayoutDone /\ w = 80 /\ h = 24) =>
        /\ geo.block_width = 8
        /\ geo.notice_start_x = 55
        /\ geo.notice_end_x = 79
        /\ geo.text_start_y = 9
        /\ geo.text_end_y = 15
        /\ geo.text_start_x = 13
        /\ geo.text_end_x = 67

\* C9, amended: at 80 x 24 the layout is block_width = 8, notice_start_x =
\* 56, notice_end_x = 79, text_start_y = 9, text_end_y = 15, text_start_x =
\* 12, text_end_x = 68 (the art is 56 columns wide, the notice 23).
C9_Layout80x24 ==
    /\ text_width = 56
    /\ text_height = 6
    /\ Len(NOTICE) = 23
    /\ (LayoutDone /\ w = 80 /\ h = 24) =>
          /\ ~geo.panic
          /\ geo.block_width = 8
          /\ geo.notice_start_x = 56
          /\ geo.notice_end_x = 79
          /\ geo.notice_y = 23
          /\ geo.text_start_y = 9
          /\ geo.text_end_y = 15
          /\ geo.text_start_x = 12
          /\ geo.text_end_x = 68

C9_Witness == dpc = "clear" /\ w = 80 /\ h = 24 /\ geo.block_width = 8

\* The art and the notice are no larger than the terminal.
Fits(tw, th) ==
    /\ tw \div BLOCKS >= 1
    /\ text_width <= tw
    /\ Len(NOTICE) <= tw
    /\ text_height <= th

StartsBeforeEnds ==
    /\ ULe(geo.text_start_x, geo.text_end_x)
    /\ ULe(geo.text_start_y, geo.text_end_y)
    /\ ULe(geo.notice_start_x, geo.notice_end_x)

\* C10 as stated: every bound, the exclusive ends included, is a column in
\* [0, w) or a row in [0, h).
C10_Original ==
    (LayoutDone /\ Fits(w, h)) =>
        /\ StartsBeforeEnds
        /\ \A x \in {geo.text_start_x, geo.text_end_x,
                     geo.notice_start_x, geo.notice_end_x} : ULe(0, x) /\ ULt(x, w)
        /\ \A y \in {geo.text_start_y, geo.text_end_y, geo.notice_y} :
               ULe(0, y) /\ ULt(y, h)

\* C10, amended: when the content fits, starts are not after ends, the
\* start bounds, notice_end_x and notice_y lie in [0, w) and [0, h), and the
\* exclusive ends satisfy text_end_x <= w and text_end_y <= h.
C10_BoxesInsideTerminal ==
    (LayoutDone /\ Fits(w, h)) =>
        /\ ~geo.panic
        /\ StartsBeforeEnds
        /\ \A x \in {geo.text_start_x, geo.notice_start_x, geo.notice_end_x} :
               ULe(0, x) /\ ULt(x, w)
        /\ \A y \in {geo.text_start_y, geo.notice_y} : ULe(0, y) /\ ULt(y, h)
        /\ ULe(geo.text_end_x, w)
        /\ ULe(geo.text_end_y, h)

C10_Witness ==
    /\ dpc = "clear"
    /\ Fits(w, h)
    /\ geo.text_end_x = w
    /\ geo.text_end_y = h

\* C11 (as stated): for every terminal of at least 9 columns and 1 row,
\* start_animation does not crash and no subtraction on its unsigned
\* quantities goes below zero, neither in the layout nor in the per-cell
\* tests of the compositor.
C11_Original ==
    (w >= 9 /\ h >= 1) => (dpc # "panic" /\ ~geo.panic /\ ~wrapped)

\* C12 (as stated): for every terminal size, frame and cell, block_width is
\* at least 1 whenever it is used as a divisor, and the row-start index and
\* the cell's colour index both lie in 0 .. cycle length - 1.
C12_Original ==
    /\ (dpc = "compose" /\ cpc = "row" /\ cy < h) =>
           /\ geo.block_width >= 1
           /\ (((frame + cy) \div geo.block_width) % Len(Colors))
                  \in 0..(Len(Colors) - 1)
    /\ (dpc = "compose" /\ cpc = "cell" /\ cx < w) =>
           /\ geo.block_width >= 1
           /\ ((DrawCell(frame, cx, cy, geo).idx \div geo.block_width)
                  % Len(Colors)) \in 0..(Len(Colors) - 1)

\* The background the escapes pushed up to cell (x, y) of frame f leave in
\* effect: that of the last switching point of the row at or before x, or
\* the row's starting colour.
RECURSIVE BgInEffect(_, _, _, _)
BgInEffect(f, x, y, g) ==
    LET d == DrawCell(f, x, y, g)
    IN  IF d.switch THEN d.bg
        ELSE IF x = 0 THEN RowStartColor(f, y, g).bg
        ELSE BgInEffect(f, x - 1, y, g)

\* Cell (x, y) of frame f as a function of f, the geometry g captured at
\* start and the colour cycle alone.
ExpectedCell(f, x, y, g) ==
    LET d == DrawCell(f, x, y, g)
    IN  [x |-> x, y |-> y, idx |-> d.idx, ch |-> d.ch,
         bg |-> BgInEffect(f, x, y, g)]

\* C13: every cell draw_frame pushes is determined by the frame index, the
\* geometry captured at start and the colour cycle, whatever the flag holds
\* and whatever the watcher does meanwhile; and no step of draw_frame
\* changes the flag, the watcher, the geometry or the frame counter.
C13_FrameIsFunctionOfInputs ==
    [][ (composeVars' # composeVars) =>
            /\ (cell' # NoCell /\ cpc' \in {"row", "cell"}) =>
                   cell' = ExpectedCell(frame', cell'.x, cell'.y, geo')
            /\ frame' = frame
            /\ geo' = geo
            /\ UNCHANGED watcherVars ]_vars

\* An art character is pushed while the flag is already set.
C13_Witness ==
    /\ key_pressed
    /\ cpc = "cell"
    /\ cell # NoCell
    /\ cell.ch \notin {"", " "}

\* C14 (as stated): the wave index of every cell is
\* frame + x + y + floor(2 * sin(y + 0.5 * frame)), the ripple term being
\* -1 or -2 where the sine is negative.
C14_Original ==
    (cpc \in {"row", "cell"} /\ cell # NoCell) =>
        cell.idx = frame + cell.x + cell.y
                       + TwoSinFloorAt(cell.y + (frame \div 2))

\* A cell draw_frame has pushed in the frame being composed.
Pushed == cpc \in {"row", "cell"} /\ cell # NoCell

\* Row y is a row of the art.
ArtRow(y) == ULe(geo.text_start_y, y) /\ ULt(y, geo.text_end_y)

\* The margin of the darkened art box on row y: one column on the first and
\* the last art row, two on the others.
Margin(y) == IF y = geo.text_start_y \/ y = geo.text_end_y - 1 THEN 1 ELSE 2

\* C15 (as stated): a cell is darkened exactly when it is on an art row
\* inside the art box or one column outside it, or on the notice row inside
\* [notice_start_x, notice_end_x).
C15_Original ==
    Pushed =>
        (cell.bg.dark <=>
            \/ /\ ArtRow(cell.y)
               /\ ULe(geo.text_start_x - 1, cell.x)
               /\ ULt(cell.x, geo.text_end_x + 1)
            \/ /\ cell.y = geo.notice_y
               /\ ULe(geo.notice_start_x, cell.x)
               /\ ULt(cell.x, geo.notice_end_x))

\* C15 (amended): a cell is darkened exactly when it is on an art row with
\* text_start_x - Margin(y) <= x < text_end_x + Margin(y), or on the notice
\* row with notice_start_x - 1 <= x < notice_end_x + 1, compared as usize.
C15_DarkRegion ==
    Pushed =>
        (cell.bg.dark <=>
            \/ /\ ArtRow(cell.y)
               /\ ULe(geo.text_start_x - Margin(cell.y), cell.x)
               /\ ULt(cell.x, geo.text_end_x + Margin(cell.y))
            \/ /\ cell.y = geo.notice_y
               /\ ULe(geo.notice_start_x - 1, cell.x)
               /\ ULt(cell.x, geo.notice_end_x + 1))

\* On an inner art row the cell two columns left of the art is darkened,
\* and so is the cell just left of the notice.
C15_Witness ==
    /\ Pushed
    /\ ~wrapped
    /\ cell.bg.dark
    /\ \/ /\ cell.y = geo.text_start_y + 1
          /\ cell.x = geo.text_start_x - 2
       \/ /\ cell.y = geo.notice_y
          /\ cell.y >= geo.text_end_y
          /\ cell.x = geo.notice_start_x - 1

\* Cell (x, y) is in the art box, in the notice box.
InArtBox(x, y) ==
    ArtRow(y) /\ ULe(geo.text_start_x, x) /\ ULt(x, geo.text_end_x)

InNoticeBox(x, y) ==
    y = geo.notice_y /\ ULe(geo.notice_start_x, x) /\ ULt(x, geo.notice_end_x)

\* The character lookup for cell (x, y) is within its string.
LookupInBounds(x, y) ==
    IF InArtBox(x, y)
    THEN /\ (y - geo.text_start_y) \in 0..(Len(text_lines) - 1)
         /\ (x - geo.text_start_x)
                \in 0..(Len(text_lines[y - geo.text_start_y + 1]) - 1)
    ELSE InNoticeBox(x, y) =>
             (x - geo.notice_start_x) \in 0..(Len(NOTICE) - 1)

\* The character the selection rule gives cell (x, y).
Selected(x, y) ==
    IF InArtBox(x, y)
    THEN text_lines[y - geo.text_start_y + 1][x - geo.text_start_x + 1]
    ELSE IF InNoticeBox(x, y)
    THEN NOTICE[x - geo.notice_start_x + 1]
    ELSE " "

\* C16 (as stated): the selection rule, every lookup in bounds, the art
\* first where the boxes overlap, and all characters of the notice shown:
\* every cell of the notice box shows its notice character.
C16_Original ==
    /\ (cpc = "cell" /\ cx < w) => LookupInBounds(cx, cy)
    /\ Pushed => cell.ch = Selected(cell.x, cell.y)
    /\ (Pushed /\ InNoticeBox(cell.x, cell.y)) =>
           cell.ch = NOTICE[cell.x - geo.notice_start_x + 1]

\* C16 (amended): the selection rule with the art first, every lookup in
\* bounds; a cell of the notice box shows its notice character exactly when
\* it is not in the art box as well.
C16_CharacterSelection ==
    /\ (cpc = "cell" /\ cx < w) => LookupInBounds(cx, cy)
    /\ Pushed => cell.ch = Selected(cell.x, cell.y)
    /\ (Pushed /\ InNoticeBox(cell.x, cell.y) /\ ~InArtBox(cell.x, cell.y)) =>
           cell.ch = NOTICE[cell.x - geo.notice_start_x + 1]

\* A cell of both boxes shows the art's character, not the notice's.
C16_Witness ==
    /\ Pushed
    /\ ~wrapped
    /\ InArtBox(cell.x, cell.y)
    /\ InNoticeBox(cell.x, cell.y)
    /\ cell.ch = text_lines[cell.y - geo.text_start_y + 1]
                           [cell.x - geo.text_start_x + 1]
    /\ cell.ch # NOTICE[cell.x - geo.notice_start_x + 1]

\* C17: a composed buffer has exactly h rows of exactly w cells each and a
\* separator after every row except the last, h - 1 separators when there
\* is a row at all.
C17_RowsAndSeparators ==
    /\ Len(rows) <= h
    /\ \A i \in 1..Len(rows) :
           IF i < Len(rows) \/ cpc \in {"row", "done"}
           THEN rows[i] = w
           ELSE rows[i] <= w
    /\ cpc = "done" =>
           /\ Len(rows) = h
           /\ seps = {y \in 0..(h - 1) : y # h - 1}
           /\ h >= 1 => Cardinality(seps) = h - 1

\* A frame of 24 rows of 80 cells with its 23 separators is complete.
C17_Witness ==
    /\ cpc = "done"
    /\ w = 80
    /\ h = 24
    /\ Len(rows) = 24
    /\ rows[24] = 80
    /\ Cardinality(seps) = 23

\* C18 (as stated): the background in effect at every pushed cell is the
\* stripe colour of the cell's own wave index,
\* cycle[(idx / block_width) mod length], also before the first switching
\* point of its row.
C18_Original ==
    Pushed =>
        cell.bg.c =
            Colors[((cell.idx \div geo.block_width) % Len(Colors)) + 1]

\* C19: when start_animation has returned success, frame 0 was cleared,
\* composed, written and flushed, in this order, before the style reset,
\* even if the flag was set before the first tick.
C19_FirstFrameAlways ==
    dpc = "ok" =>
        \E i \in Steps("clear", 0) :
            /\ log[i] = Ev("clear", 0, TRUE)
            /\ \E j \in Steps("compose", i) :
                   /\ log[j] = Ev("compose", 0, TRUE)
                   /\ \E k \in Steps("write", j) :
                          /\ log[k] = Ev("write", 0, TRUE)
                          /\ \E l \in Steps("flush", k) :
                                 /\ log[l] = Ev("flush", 0, TRUE)
                                 /\ \A r \in Steps("reset", 0) : l < r

\* Success after a flag stored before the first clear_screen: exactly one
\* frame was rendered.
C19_Witness ==
    /\ dpc = "ok"
    /\ store_at \in {0, 1}
    /\ frame = speed
    /\ Cardinality(Steps("flush", 0)) = 1

\* The watcher holds a line it has read and is about to store the flag.
HoldsLine == wpc = "match" /\ res.kind = "Ok" /\ res.n # 0

\* The watcher is at read_line or on its way back to it, and takes a line
\* that is there when it reads.
ReadsOn ==
    /\ \/ wpc = "read"
       \/ wpc = "match" /\ ~HoldsLine
    /\ (wpc = "read" /\ stdin # <<>>) => ENABLED ReadLine

\* What the driver does to the watcher: it starts it before the size lookup
\* and never ends it or waits for it, and a watcher that has ended stays so.
NeverCancelled ==
    /\ dpc # "spawn" => wpc # "unborn"
    /\ \A i \in Steps("size", 0) : wpc # "unborn"

\* C20 (as stated): after a success return the watcher has stored the flag
\* and reads no more; after an error return with the flag still false it
\* is in its read loop and will consume the next line that arrives.
C20_Original ==
    /\ NeverCancelled
    /\ dpc = "ok" => key_pressed /\ wpc = "done" /\ ~ENABLED Watcher
    /\ (dpc = "err" /\ ~key_pressed) => ReadsOn

\* C20 (amended): as stated, except that after an error return with the
\* flag still false the watcher may hold a line it has already read, and
\* then stores the flag and ends without another read; no step of the
\* driver after the spawn moves the watcher, and an ended watcher stays
\* ended.
C20_WatcherAbandoned ==
    /\ [](/\ NeverCancelled
          /\ dpc = "ok" => key_pressed /\ wpc = "done" /\ ~ENABLED Watcher
          /\ (dpc = "err" /\ ~key_pressed) =>
                 \/ ReadsOn
                 \/ HoldsLine /\ ENABLED WatcherStore /\ ~ENABLED ReadLine)
    /\ [][/\ (dpc' # dpc /\ dpc # "spawn") => wpc' = wpc
          /\ wpc = "done" => wpc' = "done"]_vars

\* The driver has returned an error while the watcher holds a line it has
\* not yet acted on.
C20_Witness ==
    /\ dpc = "err"
    /\ ~key_pressed
    /\ HoldsLine

====
